---- MODULE Spec2Model ----
(***************************************************************************)
(* Model of the batch / workflow / stage-runner / repository core of the   *)
(* video-to-content pipeline:                                              *)
(*   app/services/batch_manager_service.py    BatchManagerService          *)
(*   app/services/big_workflow_service.py     BigWorkflowService           *)
(*   app/infrastructure/repositories/procesamiento_repository.py           *)
(*   app/infrastructure/db_sql_server/sql_server_client_async.py           *)
(*                                                                         *)
(* One step of the model is one await of the code: the coroutines of a     *)
(* wave interleave at their awaits and nowhere else.  The collaborators    *)
(* behind an await (the database, the unit of work of a stage, the file    *)
(* system) either do their work and return, or raise without effect.       *)
(***************************************************************************)
EXTENDS Integers, Sequences, FiniteSets, TLC

\* ------------------------------------------------------------------ bounds
MaxItems == 3       \* longest input list of a batch
MaxWave == 2        \* largest batch_size
MaxAttempts == 3    \* documented attempt limit: the units of work considered fail at most so often
MaxRecRows == 2     \* rows of the table in the repository-level specification
MaxFaults == 1      \* collaborator failures (database, unit of work, file removal) in a batch of several items
MaxRunFaults == 4   \* collaborator failures in the run of a single item (no run can meet more)
MaxChunks == 3      \* chunks of the video stream
MaxWrites == 2      \* statements executed on a connection of the client
MaxPolls == 3       \* polls of the transcription job that are counted (the loop itself is unbounded)

\* ------------------------------------------------------- program constants
EnProceso == 2      \* estado "En Proceso"
Completado == 3     \* estado "Completado"
ErrorEstado == 4    \* estado "Error"
TipoPDF == 1        \* TipoResumenGrabacionOnline: PDF
TipoPodcast == 3    \* TipoResumenGrabacionOnline: podcast
EtapaVideo == 1
EtapaAudio == 2
EtapaTranscripcion == 3
EtapaResumen == 4
EtapaPDF == 5
EtapaGuion == 6
EtapaAudioPodcast == 7
MinTranscript == 10  \* len(text) < 10 in _transcribe_task
PollSeconds == 100   \* asyncio.sleep(100) in transcribe_audio_file

None == "None"
Estados == {EnProceso, Completado, ErrorEstado}
Terminal == {Completado, ErrorEstado}
Textos == {"", "Procesando...", "payload", "Completado.", "Error: unit", "Error: db"}
\* texts the transcription service may hand back: none, nine characters, ten, more
Transcripts == {"", "too short", "ten chars.", "a full transcript"}

VARIABLES
    requests_data,  \* the input list: requests_data[j].TipoResumenGrabacionOnline
    batch_size,     \* wave size handed to process_batch_list
    bpc,            \* position of process_batch_list: loop, gather, returned, raised
    i,              \* loop variable of process_batch_list (offset of the current wave)
    results,        \* its local list of per-item results
    report,         \* the dict it returns, NoReport before
    launched,       \* the slices handed to asyncio.gather so far, in order
    task,           \* per item: the coroutine _process_single_item and its callees
    conn,           \* per SQLServerClientAsync object: its connection (none, open, closed)
    sesiones,       \* ids of the rows of T_ProcesamientoSesionOnline
    rows,           \* per session: its detail rows, in insertion order
    disk,           \* per item: the downloaded video file exists
    invoked,        \* per item: the stages whose unit of work was called, in order
    faults,         \* number of collaborator failures so far
    budget,         \* number of collaborator failures considered
    unit_texts,     \* the texts a language-model unit of work may return
    transcripts,    \* the texts transcribe_audio_file may return
    tr,             \* a call of transcribe_audio_file and the remote job it polls
    dl,             \* a call of download_video_vimeo_async and the destination file
    db              \* a SQLServerClientAsync driven directly, and its connection

vars == <<requests_data, batch_size, bpc, i, results, report, launched,
          task, conn, sesiones, rows, disk, invoked, faults, budget, unit_texts,
          transcripts, tr, dl, db>>
batchVars == <<bpc, i, results, report, launched>>
\* the components looked at on their own, idle while a batch runs
partVars == <<tr, dl, db>>
inputVars == <<requests_data, batch_size, budget, unit_texts, transcripts, partVars>>

N == Len(requests_data)

\* a collaborator fails in this step / none does
Fault == faults < budget /\ faults' = faults + 1
NoFault == faults' = faults
Items == 1..N

\* ------------------------------------------------------------ pure helpers
Min(a, b) == IF a < b THEN a ELSE b

\* requests_data[i:], the slice without its upper end
Slice_rest(from) == [k \in 1..(N - from) |-> from + k]

\* requests_data[i : i + batch_size], as the indices of the items
Slice(from) == [k \in 1..(Min(from + batch_size, N) - from) |-> from + k]

SeqToSet(s) == {s[k] : k \in 1..Len(s)}

\* the podcast audio is generated before its script
next_stage_audio_first(s, tipos) ==
    IF s < EtapaResumen THEN s + 1
    ELSE IF s = EtapaResumen
         THEN IF TipoPDF \in tipos THEN EtapaPDF
              ELSE IF TipoPodcast \in tipos THEN EtapaAudioPodcast ELSE 0
    ELSE IF s = EtapaPDF
         THEN IF TipoPodcast \in tipos THEN EtapaAudioPodcast ELSE 0
    ELSE IF s = EtapaAudioPodcast THEN EtapaGuion
    ELSE 0

\* the podcast is generated before the PDF
next_stage_podcast_first(s, tipos) ==
    IF s < EtapaResumen THEN s + 1
    ELSE IF s = EtapaResumen
         THEN IF TipoPodcast \in tipos THEN EtapaGuion
              ELSE IF TipoPDF \in tipos THEN EtapaPDF ELSE 0
    ELSE IF s = EtapaGuion THEN EtapaAudioPodcast
    ELSE IF s = EtapaAudioPodcast
         THEN IF TipoPDF \in tipos THEN EtapaPDF ELSE 0
    ELSE 0

\* the PDF is generated whether it was requested or not
next_stage_pdf_always(s, tipos) ==
    IF s < EtapaResumen THEN s + 1
    ELSE IF s = EtapaResumen THEN EtapaPDF
    ELSE IF s = EtapaPDF
         THEN IF TipoPodcast \in tipos THEN EtapaGuion ELSE 0
    ELSE IF s = EtapaGuion THEN EtapaAudioPodcast
    ELSE 0

\* the stage the orchestrator turns to after stage s (0: none, build the report)
next_stage(s, tipos) ==
    IF s < EtapaResumen THEN s + 1
    ELSE IF s = EtapaResumen
         THEN IF TipoPDF \in tipos THEN EtapaPDF
              ELSE IF TipoPodcast \in tipos THEN EtapaGuion ELSE 0
    ELSE IF s = EtapaPDF
         THEN IF TipoPodcast \in tipos THEN EtapaGuion ELSE 0
    ELSE IF s = EtapaGuion THEN EtapaAudioPodcast
    ELSE 0

\* the label is saved whatever the unit of work returned
content_to_save_label_always(result_data) == "Completado."

\* content_to_save = str(result_data) if result_data else "Completado."
content_to_save(result_data) ==
    IF result_data = None \/ result_data = "" THEN "Completado." ELSE result_data

\* ------------------------------------------------------------- repository
\* SP_TDetalleProcesamientoSesionOnline_Insertar: a new row, Estado 2
create_detalle_etapa(tbl, etapa_id) ==
    Append(tbl, [etapa |-> etapa_id, estado |-> EnProceso, resultado |-> "", errores |-> 0])

\* SP_TDetalleProcesamientoSesionOnline_ActualizarEstado: the row is overwritten
update_detalle_estado(tbl, detalle_id, estado_nuevo_id, resultado, nro_errores) ==
    [tbl EXCEPT ![detalle_id] = [etapa |-> tbl[detalle_id].etapa,
                                 estado |-> estado_nuevo_id,
                                 resultado |-> resultado,
                                 errores |-> nro_errores]]

\* ----------------------------------------------------------------- inputs
TipoSets == SUBSET {TipoPDF, TipoPodcast}

\* the input lists of a batch: up to MaxItems items, none asks for an output
InputLists ==
    UNION {[1..n -> [TipoResumenGrabacionOnline : {{}}]] : n \in 0..MaxItems}

\* the input lists of one item, which asks for any of the outputs
SingleInputs == {<<[TipoResumenGrabacionOnline |-> t]>> : t \in TipoSets}

\* the current or last run of the stage runner in a coroutine: its stage, the
\* outcomes of its calls of the unit of work in order, its local result_data,
\* the seconds it spent in asyncio.sleep, how it ended, the value it returned
\* and the local text of _transcribe_task
NoLast == [etapa |-> 0, calls |-> <<>>, result_data |-> None, waited |-> 0,
           exit |-> None, value |-> None, text |-> None]

\* the absent "details" of an entry, the entry of a coroutine that has not
\* returned, and the report of a call that has not returned (a key that a dict
\* of the code does not have is 0 for an id and None for a text)
NoDetails == [sesion_id |-> 0, status |-> None, video_path |-> None,
              transcript_preview |-> None, summary_preview |-> None,
              pdf_url |-> None, podcast_url |-> None]
NoRet == [input_id |-> 0, sesion_id |-> 0, status |-> None,
          details |-> NoDetails, error |-> None]
NoReport == [total_processed |-> 0 - 1, success |-> 0 - 1, failed |-> 0 - 1,
             results |-> <<>>]

\* the coroutine of an item before asyncio.gather has created it
IdleTask == [pc |-> "idle", client |-> 0, sesion_id |-> 0, stage_id |-> 0,
             detalle_id |-> 0, exc |-> None, video_path |-> None,
             summary_text |-> None,
             pdf_url_result |-> None, podcast_url_result |-> None,
             cleanup |-> None, last |-> NoLast, ret |-> NoRet]

\* a call of transcribe_audio_file: its position, the status of the remote
\* job, the status last read, the polls and the seconds slept so far, the
\* statuses read so far, the local final_text and how the call failed
IdleTr == [pc |-> "upload", job |-> None, status |-> None, polls |-> 0,
           slept |-> 0, reported |-> {}, final_text |-> None, exc |-> None]

\* a call of download_video_vimeo_async: its position, the destination file
\* (absent, old: left by an earlier download, partial, complete), the chunks
\* the stream holds and those written, whether file_path is bound and the
\* file was opened for writing, and the exception that left the call
IdleDl == [pc |-> "url", file |-> "absent", total |-> 1, written |-> 0,
           bound |-> FALSE, opened |-> FALSE, exc |-> None]

\* a SQLServerClientAsync after __init__: _conn (none, open), _in_transaction,
\* _autocommit_default, the autocommit of the connection, the statements
\* pending on the connection and those committed, whether the body of a
\* transaction() block is running, and the last call with what it raised and
\* what the call made by the transaction() block raised
NewClient == [conn |-> "none", in_transaction |-> FALSE, autocommit_default |-> TRUE,
              autocommit |-> TRUE, pending |-> 0, committed |-> 0, tx |-> "none",
              last |-> [op |-> None, exc |-> None, inner |-> None]]

PartsIdle == tr = IdleTr /\ dl = IdleDl /\ db = NewClient

Init ==
    /\ PartsIdle
    /\ requests_data \in InputLists
    /\ batch_size \in 1..MaxWave
    /\ bpc = "loop"
    /\ i = 0
    /\ results = <<>>
    /\ report = NoReport
    /\ launched = <<>>
    /\ task = [j \in 1..Len(requests_data) |-> IdleTask]
    /\ conn = <<>>
    /\ sesiones = {}
    /\ rows = [j \in 1..Len(requests_data) |-> <<>>]
    /\ disk = [j \in 1..Len(requests_data) |-> FALSE]
    /\ invoked = [j \in 1..Len(requests_data) |-> <<>>]
    /\ faults = 0
    /\ budget = MaxFaults
    /\ unit_texts = {"payload"}
    /\ transcripts = {"a full transcript"}

\* one item processed alone, its collaborators failing wherever they can
InitSingle ==
    /\ PartsIdle
    /\ requests_data \in SingleInputs
    /\ batch_size = 1
    /\ bpc = "loop"
    /\ i = 0
    /\ results = <<>>
    /\ report = NoReport
    /\ launched = <<>>
    /\ task = <<IdleTask>>
    /\ conn = <<>>
    /\ sesiones = {}
    /\ rows = << <<>> >>
    /\ disk = <<FALSE>>
    /\ invoked = << <<>> >>
    /\ faults = 0
    /\ budget = MaxRunFaults
    /\ unit_texts = {"payload", ""}
    /\ transcripts = Transcripts

\* --------------------------------------------- _process_single_item (item j)
\* summary_text[:100] + "..."
summary_preview(summary_text) == IF summary_text = "" THEN "..." ELSE "payload..."

\* the dict returned after the workflow returned its report; the report has
\* no key video_path and no key transcript_preview
success_entry(j, t) ==
    [input_id |-> j, sesion_id |-> t.sesion_id, status |-> "success",
     details |-> [sesion_id |-> t.sesion_id, status |-> "success",
                  video_path |-> None, transcript_preview |-> None,
                  summary_preview |-> summary_preview(t.summary_text),
                  pdf_url |-> t.pdf_url_result,
                  podcast_url |-> t.podcast_url_result],
     error |-> None]

\* the dict returned by the except clause of the item
error_entry(j, e) ==
    [input_id |-> j, sesion_id |-> 0, status |-> "error",
     details |-> NoDetails, error |-> e]

\* async with client: __aenter__ -> connect()
connect(j) ==
    /\ task[j].pc = "connect"
    /\ \/ /\ conn' = [conn EXCEPT ![task[j].client] = "open"]
          /\ task' = [task EXCEPT ![j].pc = "create_sesion"]
          /\ NoFault
       \/ /\ task' = [task EXCEPT ![j].pc = "raised"]
          /\ UNCHANGED conn
          /\ Fault
    /\ UNCHANGED <<inputVars, batchVars, sesiones, rows, disk, invoked>>

\* the error dict is returned before the connection is closed
create_sesion_online_leaks(j) ==
    /\ task[j].pc = "create_sesion"
    /\ \/ /\ sesiones' = sesiones \cup {j}
          /\ task' = [task EXCEPT ![j].pc = "begin", ![j].sesion_id = j,
                                  ![j].stage_id = EtapaVideo]
          /\ NoFault
       \/ /\ task' = [task EXCEPT ![j].pc = "returned",
                                  ![j].ret = error_entry(j, "db")]
          /\ UNCHANGED sesiones
          /\ Fault
    /\ UNCHANGED <<inputVars, batchVars, conn, rows, disk, invoked>>

\* sesion_id = await repo.create_sesion_online(data); on success the
\* orchestrator starts with stage 1, on failure the except clause answers
create_sesion_online(j) ==
    /\ task[j].pc = "create_sesion"
    /\ \/ /\ sesiones' = sesiones \cup {j}
          /\ task' = [task EXCEPT ![j].pc = "begin", ![j].sesion_id = j,
                                  ![j].stage_id = EtapaVideo]
          /\ NoFault
       \/ /\ task' = [task EXCEPT ![j].pc = "close",
                                  ![j].ret = error_entry(j, "db")]
          /\ UNCHANGED sesiones
          /\ Fault
    /\ UNCHANGED <<inputVars, batchVars, conn, rows, disk, invoked>>

\* ------------------------------------------------ orchestrate_up_to_summary
\* the end of the orchestrator: finally removes the video (errors of the
\* removal are swallowed), then the item builds its dict from the report or
\* from the exception e, and the locals of the workflow are gone; f counts the
\* collaborator failures of the step so far
\* what the finally clause did: no file to remove, file removed, os.remove raised
cleanup_outcome(exists, removed) ==
    IF ~exists THEN "skipped" ELSE IF removed THEN "removed" ELSE "failed"

\* a finally clause that lets the error of os.remove out of the workflow
pipeline_ends_cleanup_raises(j, t, e, f) ==
    /\ \E removed \in BOOLEAN :
          LET exists == t.video_path \notin {None, ""} /\ disk[j]
              g == IF exists /\ ~removed THEN f + 1 ELSE f
          IN  /\ removed => exists
              /\ faults + g <= budget
              /\ faults' = faults + g
              /\ disk' = [disk EXCEPT ![j] = IF removed THEN FALSE ELSE @]
              /\ task' = [task EXCEPT ![j] =
                    [IdleTask EXCEPT !.pc = "close", !.client = t.client,
                                     !.last = t.last,
                                     !.cleanup = cleanup_outcome(exists, removed),
                                     !.ret = IF exists /\ ~removed
                                             THEN error_entry(j, "os")
                                             ELSE IF e = None THEN success_entry(j, t)
                                             ELSE error_entry(j, e)]]

pipeline_ends(j, t, e, f) ==
    /\ \E removed \in BOOLEAN :
          LET exists == t.video_path \notin {None, ""} /\ disk[j]
              g == IF exists /\ ~removed THEN f + 1 ELSE f
          IN  /\ removed => exists
              /\ faults + g <= budget
              /\ faults' = faults + g
              /\ disk' = [disk EXCEPT ![j] = IF removed THEN FALSE ELSE @]
              /\ task' = [task EXCEPT ![j] =
                    [IdleTask EXCEPT !.pc = "close", !.client = t.client,
                                     !.last = t.last,
                                     !.cleanup = cleanup_outcome(exists, removed),
                                     !.ret = IF e = None THEN success_entry(j, t)
                                             ELSE error_entry(j, e)]]

\* _run_step_with_retry returned result_data: the orchestrator keeps it in the
\* local of the stage and turns to the next stage, or builds the report
runner_returns(j, t, result_data) ==
    LET nxt == next_stage(t.stage_id, requests_data[j].TipoResumenGrabacionOnline)
        t1 == [t EXCEPT !.last.exit = "returned",
                        !.last.value = result_data,
                        !.video_path = IF t.stage_id = EtapaVideo
                                       THEN result_data ELSE @,
                        !.summary_text = IF t.stage_id = EtapaResumen
                                         THEN result_data ELSE @,
                        !.pdf_url_result = IF t.stage_id = EtapaPDF
                                           THEN result_data ELSE @,
                        !.podcast_url_result = IF t.stage_id = EtapaAudioPodcast
                                               THEN result_data ELSE @]
    IN  IF nxt # 0
        THEN /\ task' = [task EXCEPT ![j] = [t1 EXCEPT !.pc = "begin",
                                                       !.stage_id = nxt]]
             /\ UNCHANGED disk
             /\ NoFault
        ELSE pipeline_ends(j, t1, None, 0)

\* a handler that records the failure and does not re-raise
runner_raises_swallowed(j, t, e, f) ==
    /\ f = 0
    /\ runner_returns(j, t, None)

\* _run_step_with_retry raised e: except: raise e, finally, out of the workflow
runner_raises(j, t, e, f) ==
    pipeline_ends(j, [t EXCEPT !.last.exit = "raised"], e, f)

\* ----------------------------------------------------- _run_step_with_retry
\* a failure to create the row is caught and the stage is skipped
step_create_skips_on_failure(j) ==
    /\ task[j].pc = "begin"
    /\ \/ /\ rows' = [rows EXCEPT ![j] = create_detalle_etapa(@, task[j].stage_id)]
          /\ task' = [task EXCEPT ![j].pc = "mark",
                                  ![j].detalle_id = Len(rows[j]) + 1,
                                  ![j].last = [NoLast EXCEPT !.etapa = task[j].stage_id]]
          /\ UNCHANGED disk
          /\ NoFault
       \/ /\ faults < budget
          /\ runner_returns(j, [task[j] EXCEPT !.last = [NoLast EXCEPT
                                     !.etapa = task[j].stage_id]], None)
          /\ UNCHANGED rows
    /\ UNCHANGED <<inputVars, batchVars, conn, sesiones, invoked>>

\* detalle_id = await self.repo.create_detalle_etapa(sesion_id, stage_id),
\* before the try: a failure leaves the runner at once
step_create(j) ==
    /\ task[j].pc = "begin"
    /\ \/ /\ rows' = [rows EXCEPT ![j] = create_detalle_etapa(@, task[j].stage_id)]
          /\ task' = [task EXCEPT ![j].pc = "mark",
                                  ![j].detalle_id = Len(rows[j]) + 1,
                                  ![j].last = [NoLast EXCEPT !.etapa = task[j].stage_id]]
          /\ UNCHANGED disk
          /\ NoFault
       \/ /\ runner_raises(j, [task[j] EXCEPT !.last = [NoLast EXCEPT
                                     !.etapa = task[j].stage_id]], "db", 1)
          /\ UNCHANGED rows
    /\ UNCHANGED <<inputVars, batchVars, conn, sesiones, invoked>>

\* the id of the row is kept where the runs of a wave share it: the runner
\* marks the row of a run that has just created one
step_mark_shared_detalle(j) ==
    /\ task[j].pc = "mark"
    /\ \E k \in Items :
          /\ task[k].pc = "mark"
          /\ rows' = [rows EXCEPT ![k] = update_detalle_estado(
                          @, task[k].detalle_id, EnProceso, "Procesando...", 0)]
    /\ task' = [task EXCEPT ![j].pc = "work"]
    /\ NoFault
    /\ UNCHANGED <<inputVars, batchVars, conn, sesiones, disk, invoked>>

\* the row is marked with the number of the attempt instead of the errors
step_mark_counts_attempt(j) ==
    /\ task[j].pc = "mark"
    /\ rows' = [rows EXCEPT ![j] = update_detalle_estado(
                    @, task[j].detalle_id, EnProceso, "Procesando...", 1)]
    /\ task' = [task EXCEPT ![j].pc = "work"]
    /\ NoFault
    /\ UNCHANGED <<inputVars, batchVars, conn, sesiones, disk, invoked>>

\* await self.repo.update_detalle_estado(detalle_id, 2, "Procesando...", 0)
step_mark(j) ==
    /\ task[j].pc = "mark"
    /\ \/ /\ rows' = [rows EXCEPT ![j] = update_detalle_estado(
                          @, task[j].detalle_id, EnProceso, "Procesando...", 0)]
          /\ task' = [task EXCEPT ![j].pc = "work"]
          /\ NoFault
       \/ /\ task' = [task EXCEPT ![j].pc = "except", ![j].exc = "db"]
          /\ UNCHANGED rows
          /\ Fault
    /\ UNCHANGED <<inputVars, batchVars, conn, sesiones, disk, invoked>>

\* what the unit of work of a stage may return: the text of a language model
\* (the summary, the podcast script) may be empty, a path or a URL is not
unit_results(stage_id) ==
    IF stage_id \in {EtapaResumen, EtapaGuion} THEN unit_texts
    ELSE IF stage_id = EtapaTranscripcion THEN transcripts
    ELSE {"payload"}

\* only the empty transcript is refused
transcript_rejected_empty_only(text) == text = ""

\* _transcribe_task: if not text or len(text) < 10: raise ValueError("Texto vacío.")
transcript_rejected(text) == text = "" \/ Len(text) < MinTranscript

\* f"Error: {str(e)}"
error_text(e) == IF e = "unit" THEN "Error: unit" ELSE "Error: db"

\* result_data = await func(): the unit of work raises or returns its
\* payload; the download leaves the video file on disk; the transcription
\* closure raises on a transcript it refuses
step_func(j) ==
    /\ task[j].pc = "work"
    /\ invoked' = [invoked EXCEPT ![j] = Append(@, task[j].stage_id)]
    /\ \/ /\ task' = [task EXCEPT ![j].pc = "except", ![j].exc = "unit",
                                  ![j].last.calls = Append(@, "raised")]
          /\ UNCHANGED disk
          /\ Fault
       \/ /\ \E text \in unit_results(task[j].stage_id) :
                IF task[j].stage_id = EtapaTranscripcion /\ transcript_rejected(text)
                THEN task' = [task EXCEPT ![j].pc = "except", ![j].exc = "unit",
                                          ![j].last.calls = Append(@, "raised"),
                                          ![j].last.text = text]
                ELSE task' = [task EXCEPT ![j].pc = "complete",
                                          ![j].last.calls = Append(@, "returned"),
                                          ![j].last.result_data = text,
                                          ![j].last.text =
                                              IF task[j].stage_id = EtapaTranscripcion
                                              THEN text ELSE @]
          /\ disk' = [disk EXCEPT ![j] =
                         IF task[j].stage_id = EtapaVideo THEN TRUE ELSE @]
          /\ NoFault
    /\ UNCHANGED <<inputVars, batchVars, conn, sesiones, rows>>

\* a statement after the update of estado 3 raises inside the try
step_completed_then_raises(j) ==
    /\ task[j].pc = "complete"
    /\ rows' = [rows EXCEPT ![j] = update_detalle_estado(
                    @, task[j].detalle_id, Completado,
                    content_to_save(task[j].last.result_data), 0)]
    /\ task' = [task EXCEPT ![j].pc = "except", ![j].exc = "unit"]
    /\ NoFault
    /\ UNCHANGED <<inputVars, batchVars, conn, sesiones, disk, invoked>>

\* the runner returns the result without writing estado 3
step_completed_unrecorded(j) ==
    /\ task[j].pc = "complete"
    /\ runner_returns(j, task[j], task[j].last.result_data)
    /\ UNCHANGED <<inputVars, batchVars, conn, sesiones, invoked, rows>>

\* await self.repo.update_detalle_estado(detalle_id, 3, content_to_save, 0);
\* return result_data
step_completed(j) ==
    /\ task[j].pc = "complete"
    /\ \/ /\ rows' = [rows EXCEPT ![j] = update_detalle_estado(
                          @, task[j].detalle_id, Completado,
                          content_to_save(task[j].last.result_data), 0)]
          /\ runner_returns(j, task[j], task[j].last.result_data)
       \/ /\ task' = [task EXCEPT ![j].pc = "except", ![j].exc = "db"]
          /\ UNCHANGED <<rows, disk>>
          /\ Fault
    /\ UNCHANGED <<inputVars, batchVars, conn, sesiones, invoked>>

\* the handler raises e again without recording it
step_except_unrecorded(j) ==
    /\ task[j].pc = "except"
    /\ runner_raises(j, task[j], task[j].exc, 0)
    /\ UNCHANGED <<inputVars, batchVars, conn, sesiones, invoked, rows>>

\* except Exception as e:
\*     await self.repo.update_detalle_estado(detalle_id, 4, f"Error: {e}", 1)
\*     raise e
\* a failure of the update leaves the handler with the exception of the update
step_except(j) ==
    /\ task[j].pc = "except"
    /\ \/ /\ rows' = [rows EXCEPT ![j] = update_detalle_estado(
                          @, task[j].detalle_id, ErrorEstado,
                          error_text(task[j].exc), 1)]
          /\ runner_raises(j, task[j], task[j].exc, 0)
       \/ /\ runner_raises(j, task[j], "db", 1)
          /\ UNCHANGED rows
    /\ UNCHANGED <<inputVars, batchVars, conn, sesiones, invoked>>

\* async with client: __aexit__ -> close(); the finally of close() forgets the
\* connection also when closing it raised, and then the dict is lost
close(j) ==
    /\ task[j].pc = "close"
    /\ conn' = [conn EXCEPT ![task[j].client] = "closed"]
    /\ \/ /\ task' = [task EXCEPT ![j].pc = "returned", ![j].last = NoLast,
                                  ![j].cleanup = None]
          /\ NoFault
       \/ /\ task' = [task EXCEPT ![j].pc = "raised", ![j].ret = NoRet,
                                  ![j].last = NoLast, ![j].cleanup = None]
          /\ Fault
    /\ UNCHANGED <<inputVars, batchVars, sesiones, rows, disk, invoked>>

\* ------------------------------------------------------- process_batch_list
\* the results of the coroutines, last coroutine first
gather_reversed(slice) == [k \in 1..Len(slice) |-> task[slice[Len(slice) + 1 - k]].ret]

\* batch_results = await asyncio.gather(*tasks): the results of the coroutines
\* in the order of the coroutines, not in the order of their completion
gather(slice) == [k \in 1..Len(slice) |-> task[slice[k]].ret]

\* the coroutines of a wave share one client, made before they start
launch_wave_shared_client ==
    /\ bpc = "loop"
    /\ i < N
    /\ launched' = Append(launched, Slice(i))
    /\ conn' = Append(conn, "none")
    /\ task' = [j \in Items |-> IF j \in SeqToSet(Slice(i))
                                THEN [task[j] EXCEPT !.pc = "connect",
                                                     !.client = Len(conn) + 1]
                                ELSE task[j]]
    /\ bpc' = "gather"
    /\ UNCHANGED <<inputVars, i, results, report, sesiones, rows, disk, invoked, faults>>

\* for i in range(0, total_items, batch_size): the coroutines of the slice
\* are created and handed to asyncio.gather, which starts them in order; each
\* makes its own client, client = SQLServerClientAsync(dsn), before its first
\* await
launch_wave ==
    /\ bpc = "loop"
    /\ i < N
    /\ launched' = Append(launched, Slice(i))
    /\ conn' = conn \o [k \in DOMAIN Slice(i) |-> "none"]
    /\ task' = [j \in Items |-> IF j \in SeqToSet(Slice(i))
                                THEN [task[j] EXCEPT !.pc = "connect",
                                                     !.client = Len(conn) + (j - i)]
                                ELSE task[j]]
    /\ bpc' = "gather"
    /\ UNCHANGED <<inputVars, i, results, report, sesiones, rows, disk, invoked, faults>>

\* every coroutine of the wave returned: results.extend(batch_results)
gather_returns ==
    /\ bpc = "gather"
    /\ \A j \in SeqToSet(Slice(i)) : task[j].pc = "returned"
    /\ results' = results \o gather(Slice(i))
    /\ i' = i + batch_size
    /\ bpc' = "loop"
    /\ UNCHANGED <<inputVars, report, launched, task, conn, sesiones, rows, disk, invoked, faults>>

\* a coroutine of the wave raised: gather (return_exceptions is not set) raises
\* at once in process_batch_list, which has no handler; the other coroutines
\* of the wave are not cancelled and run on
gather_raises ==
    /\ bpc = "gather"
    /\ \E j \in SeqToSet(Slice(i)) : task[j].pc = "raised"
    /\ bpc' = "raised"
    /\ UNCHANGED <<inputVars, i, results, report, launched, task, conn, sesiones,
                   rows, disk, invoked, faults>>

\* sum(1 for r in results if r["status"] == "success")
success_count(rs) == Cardinality({k \in DOMAIN rs : rs[k].status = "success"})

\* after the loop: the counts and the return
batch_return ==
    /\ bpc = "loop"
    /\ i >= N
    /\ report' = [total_processed |-> N, success |-> success_count(results),
                  failed |-> N - success_count(results), results |-> results]
    /\ bpc' = "returned"
    /\ UNCHANGED <<inputVars, i, results, launched, task, conn, sesiones, rows,
                   disk, invoked, faults>>

Next ==
    \/ launch_wave
    \/ gather_returns
    \/ gather_raises
    \/ batch_return
    \/ \E j \in Items : connect(j)
    \/ \E j \in Items : create_sesion_online(j)
    \/ \E j \in Items : step_create(j)
    \/ \E j \in Items : step_mark(j)
    \/ \E j \in Items : step_func(j)
    \/ \E j \in Items : step_completed(j)
    \/ \E j \in Items : step_except(j)
    \/ \E j \in Items : close(j)

Spec == Init /\ [][Next]_vars

SpecSingle == InitSingle /\ [][Next]_vars

\* the event loop runs a coroutine that can run, and every await of the item
\* comes back (the unit of work terminates on each call)
SpecSingleFair == InitSingle /\ [][Next]_vars /\ WF_vars(Next)

TypeOK ==
    /\ bpc \in {"loop", "gather", "returned", "raised"}
    /\ \A j \in Items : task[j].pc \in {"idle", "connect", "create_sesion", "begin",
                                        "mark", "work", "complete", "except",
                                        "close", "returned", "raised"}

\* -------------------------------- the repository called directly (SpecRec)
\* A client of ProcesamientoRepository issues create_detalle_etapa and
\* update_detalle_estado in any order and with any arguments on the rows of
\* one session.
InitRec ==
    /\ PartsIdle
    /\ requests_data = <<[TipoResumenGrabacionOnline |-> {}]>>
    /\ batch_size = 1
    /\ bpc = "returned"
    /\ i = 0
    /\ results = <<>>
    /\ report = NoReport
    /\ launched = <<>>
    /\ task = <<IdleTask>>
    /\ conn = <<"open">>
    /\ sesiones = {1}
    /\ rows = << <<>> >>
    /\ disk = <<FALSE>>
    /\ invoked = << <<>> >>
    /\ faults = 0
    /\ budget = 0
    /\ unit_texts = {"payload"}
    /\ transcripts = {"a full transcript"}

recVars == <<inputVars, batchVars, task, conn, sesiones, disk, invoked, faults>>

rec_create_detalle_etapa ==
    /\ Len(rows[1]) < MaxRecRows
    /\ \E etapa_id \in {EtapaVideo, EtapaAudio} :
          rows' = [rows EXCEPT ![1] = create_detalle_etapa(@, etapa_id)]
    /\ UNCHANGED recVars

\* "texto_resultado": resultado or ""
rec_update_detalle_estado ==
    /\ \E detalle_id \in DOMAIN rows[1], estado_nuevo_id \in Estados,
          resultado \in Textos \cup {None}, nro_errores \in 0..MaxAttempts :
          rows' = [rows EXCEPT ![1] = update_detalle_estado(
                      @, detalle_id, estado_nuevo_id,
                      IF resultado = None THEN "" ELSE resultado, nro_errores)]
    /\ UNCHANGED recVars

NextRec == rec_create_detalle_etapa \/ rec_update_detalle_estado

SpecRec == InitRec /\ [][NextRec]_vars

\* ------------------------- TranscriptionService.transcribe_audio_file (SpecPoll)
\* no batch is running
pipeVars == <<requests_data, batch_size, budget, unit_texts, transcripts,
              batchVars, task, conn, sesiones, rows, disk, invoked, faults>>

PipelineIdle ==
    /\ requests_data = <<>>
    /\ batch_size = 1
    /\ bpc = "returned"
    /\ i = 0
    /\ results = <<>>
    /\ report = NoReport
    /\ launched = <<>>
    /\ task = <<>>
    /\ conn = <<>>
    /\ sesiones = {}
    /\ rows = <<>>
    /\ disk = <<>>
    /\ invoked = <<>>
    /\ faults = 0
    /\ budget = 0
    /\ unit_texts = {"payload"}
    /\ transcripts = Transcripts

InitPoll == PipelineIdle /\ tr = IdleTr /\ dl = IdleDl /\ db = NewClient

\* Azure Speech: the statuses of a batch transcription job
JobStatuses == {"NotStarted", "Running", "Succeeded", "Failed"}

\* except Exception as e: raise e
tr_raises(e) == tr' = [tr EXCEPT !.pc = "raised", !.exc = e]

\* sas_url = await upload_file_to_blob_async(...)
upload_audio ==
    /\ tr.pc = "upload"
    /\ \/ tr' = [tr EXCEPT !.pc = "start"]
       \/ tr_raises("upload")
    /\ UNCHANGED <<pipeVars, dl, db>>

\* job_response = await self.azure_client.start_transcription(...)
start_transcription ==
    /\ tr.pc = "start"
    /\ \/ tr' = [tr EXCEPT !.pc = "poll", !.job = "NotStarted"]
       \/ tr_raises("start")
    /\ UNCHANGED <<pipeVars, dl, db>>

\* the remote job moves on by itself, or never does
job_advances ==
    /\ tr.job \in {"NotStarted", "Running"}
    /\ \E st \in JobStatuses :
          /\ \/ tr.job = "NotStarted" /\ st # "NotStarted"
             \/ tr.job = "Running" /\ st \in {"Succeeded", "Failed"}
          /\ tr' = [tr EXCEPT !.job = st]
    /\ UNCHANGED <<pipeVars, dl, db>>

\* every status but Failed and Running ends the wait
loop_exit_unless_running(status) ==
    IF status = "Failed" THEN "raise"
    ELSE IF status = "Running" THEN "sleep" ELSE "break"

\* if status == "Succeeded": break / elif status == "Failed": raise / sleep
loop_exit(status) ==
    IF status = "Succeeded" THEN "break"
    ELSE IF status = "Failed" THEN "raise" ELSE "sleep"

\* status_data = await self.azure_client.get_transcription_job(id) and the
\* branch on status_data["status"]
poll_job ==
    /\ tr.pc = "poll"
    /\ \/ LET t == [tr EXCEPT !.status = tr.job,
                               !.polls = Min(@ + 1, MaxPolls),
                               !.reported = @ \cup {tr.job}]
              exit == loop_exit(tr.job)
          IN  tr' = IF exit = "break" THEN [t EXCEPT !.pc = "files"]
                    ELSE IF exit = "raise"
                         THEN [t EXCEPT !.pc = "raised", !.exc = "failed"]
                         ELSE [t EXCEPT !.pc = "sleep"]
       \/ tr_raises("poll")
    /\ UNCHANGED <<pipeVars, dl, db>>

\* await asyncio.sleep(100)
poll_sleep ==
    /\ tr.pc = "sleep"
    /\ tr' = [tr EXCEPT !.pc = "poll",
                        !.slept = Min(@ + PollSeconds, MaxPolls * PollSeconds)]
    /\ UNCHANGED <<pipeVars, dl, db>>

\* files_response = await get_transcription_files(id); the file of kind
\* Transcription, or "Azure terminó pero no generó archivo de transcripción."
get_files ==
    /\ tr.pc = "files"
    /\ \/ tr' = [tr EXCEPT !.pc = "content"]
       \/ tr_raises("nofile")
       \/ tr_raises("files")
    /\ UNCHANGED <<pipeVars, dl, db>>

\* full_json = await download_transcript_content(url); final_text = ...
get_content ==
    /\ tr.pc = "content"
    /\ \/ \E text \in transcripts : tr' = [tr EXCEPT !.pc = "delete", !.final_text = text]
       \/ tr_raises("content")
    /\ UNCHANGED <<pipeVars, dl, db>>

\* await delete_transcription(id); self._save_local_backup(...) swallows its
\* failures; return final_text
delete_and_return ==
    /\ tr.pc = "delete"
    /\ \/ tr' = [tr EXCEPT !.pc = "returned"]
       \/ tr_raises("delete")
    /\ UNCHANGED <<pipeVars, dl, db>>

CallStep ==
    \/ upload_audio
    \/ start_transcription
    \/ poll_job
    \/ poll_sleep
    \/ get_files
    \/ get_content
    \/ delete_and_return

NextPoll == CallStep \/ job_advances

SpecPoll == InitPoll /\ [][NextPoll]_vars

\* every await of the call comes back, with a value or an exception; the
\* remote job is free never to finish
SpecPollFair == InitPoll /\ [][NextPoll]_vars /\ WF_vars(CallStep)

\* ------------------------------------ download_video_vimeo_async (SpecDownload)
\* the destination may hold the file of an earlier download of the video
InitDownload ==
    /\ PipelineIdle
    /\ tr = IdleTr
    /\ db = NewClient
    /\ \E file \in {"absent", "old"}, total \in 1..MaxChunks :
          dl = [IdleDl EXCEPT !.file = file, !.total = total]

FileExists(d) == d.file # "absent"

\* aiohttp.ClientError and its subclasses, caught before every other Exception
ClientErrors == {"ClientError"}

\* except aiohttp.ClientError: raise / except Exception: remove the file if
\* file_path is bound and the file exists (os.remove may raise), raise
dl_fails(d, e) ==
    IF e \in ClientErrors
    THEN dl' = [d EXCEPT !.pc = "raised", !.exc = e]
    ELSE IF d.bound /\ FileExists(d)
         THEN \/ dl' = [d EXCEPT !.pc = "raised", !.exc = e, !.file = "absent"]
              \/ dl' = [d EXCEPT !.pc = "raised", !.exc = "OSError"]
         ELSE dl' = [d EXCEPT !.pc = "raised", !.exc = e]

\* 1. the id of the video in the URL, or ValueError
parse_url ==
    /\ dl.pc = "url"
    /\ \/ dl' = [dl EXCEPT !.pc = "meta"]
       \/ dl_fails(dl, "ValueError")
    /\ UNCHANGED <<pipeVars, tr, db>>

\* 2. async with session.get(api_url): a status other than 200 is an Exception
fetch_metadata ==
    /\ dl.pc = "meta"
    /\ \/ dl' = [dl EXCEPT !.pc = "link"]
       \/ \E e \in {"ClientError", "Exception"} : dl_fails(dl, e)
    /\ UNCHANGED <<pipeVars, tr, db>>

\* 3. and 4. the download link, or IOError; file_path is bound
choose_link ==
    /\ dl.pc = "link"
    /\ \/ dl' = [dl EXCEPT !.pc = "get", !.bound = TRUE]
       \/ dl_fails(dl, "IOError")
    /\ UNCHANGED <<pipeVars, tr, db>>

\* async with session.get(download_link): raise_for_status()
open_stream ==
    /\ dl.pc = "get"
    /\ \/ dl' = [dl EXCEPT !.pc = "open"]
       \/ \E e \in {"ClientError", "TimeoutError"} : dl_fails(dl, e)
    /\ UNCHANGED <<pipeVars, tr, db>>

\* async with aiofiles.open(file_path, 'wb'): the file is created or emptied
open_file ==
    /\ dl.pc = "open"
    /\ \/ dl' = [dl EXCEPT !.pc = "stream", !.file = "partial", !.opened = TRUE]
       \/ dl_fails(dl, "OSError")
    /\ UNCHANGED <<pipeVars, tr, db>>

\* async for chunk in iter_chunked(8192): await f.write(chunk)
write_chunk ==
    /\ dl.pc = "stream"
    /\ dl.written < dl.total
    /\ \/ dl' = [dl EXCEPT !.written = @ + 1]
       \/ \E e \in {"ClientError", "TimeoutError", "OSError"} : dl_fails(dl, e)
    /\ UNCHANGED <<pipeVars, tr, db>>

\* the stream is exhausted: return file_path
download_returns ==
    /\ dl.pc = "stream"
    /\ dl.written = dl.total
    /\ dl' = [dl EXCEPT !.pc = "returned", !.file = "complete"]
    /\ UNCHANGED <<pipeVars, tr, db>>

NextDownload ==
    \/ parse_url
    \/ fetch_metadata
    \/ choose_link
    \/ open_stream
    \/ open_file
    \/ write_chunk
    \/ download_returns

SpecDownload == InitDownload /\ [][NextDownload]_vars

\* ------------------------------------------- SQLServerClientAsync (SpecClient)
\* the client is built with autocommit True (the default) or False
InitClient ==
    /\ PipelineIdle
    /\ tr = IdleTr
    /\ dl = IdleDl
    /\ \E autocommit \in BOOLEAN :
          db = [NewClient EXCEPT !.autocommit_default = autocommit,
                                 !.autocommit = autocommit]

\* Each call is the set of its outcomes <<client after the call, exception>>,
\* "ok" for a return. The calls of the connection (connect, close, cursor,
\* execute, commit, rollback, the setter of autocommit) return or raise.

\* _ensure_connected: RuntimeError without a connection
ensure_connected(d) == d.conn # "none"

\* connect(): nothing on a connected client
connect_outcomes(d) ==
    IF d.conn # "none" THEN {<<d, "ok">>}
    ELSE {<<[d EXCEPT !.conn = "open", !.autocommit = d.autocommit_default], "ok">>,
          <<d, "connect">>}

\* close(): nothing on a closed client; finally: the connection and the
\* transaction are dropped (the server forgets what was pending)
close_outcomes(d) ==
    IF d.conn = "none" THEN {<<d, "ok">>}
    ELSE LET closed == [d EXCEPT !.conn = "none", !.in_transaction = FALSE,
                                 !.autocommit = d.autocommit_default, !.pending = 0]
         IN  {<<closed, "ok">>, <<closed, "close">>}

\* a second begin_transaction starts over silently
begin_outcomes_reentrant(d) ==
    IF ~ensure_connected(d) THEN {<<d, "RuntimeError">>}
    ELSE {<<[d EXCEPT !.autocommit = FALSE, !.in_transaction = TRUE, !.pending = 0], "ok">>,
          <<d, "setter">>}

\* begin_transaction(): conn.autocommit = False; self._in_transaction = True
begin_outcomes(d) ==
    IF ~ensure_connected(d) THEN {<<d, "RuntimeError">>}
    ELSE IF d.in_transaction THEN {<<d, "RuntimeError">>}
    ELSE {<<[d EXCEPT !.autocommit = FALSE, !.in_transaction = TRUE], "ok">>,
          <<d, "setter">>}

\* finally: conn.autocommit = self._autocommit_default; self._in_transaction
\* = False: when the setter raises, its exception replaces exc and the flag
\* is not reset
restore_outcomes(d, exc) ==
    {<<[d EXCEPT !.autocommit = d.autocommit_default, !.in_transaction = FALSE], exc>>,
     <<d, "setter">>}

\* commit(): conn.commit() and the finally clause
commit_outcomes(d) ==
    IF ~ensure_connected(d) THEN {<<d, "RuntimeError">>}
    ELSE IF ~d.in_transaction THEN {<<d, "ok">>}
    ELSE restore_outcomes([d EXCEPT !.committed = @ + d.pending, !.pending = 0], "ok")
         \cup restore_outcomes(d, "commit")

\* rollback(): conn.rollback() and the finally clause
rollback_outcomes(d) ==
    IF ~ensure_connected(d) THEN {<<d, "RuntimeError">>}
    ELSE IF ~d.in_transaction THEN {<<d, "ok">>}
    ELSE restore_outcomes([d EXCEPT !.pending = 0], "ok")
         \cup restore_outcomes(d, "rollback")

\* except: if not self._in_transaction and not conn.autocommit: rollback,
\* whose own failure is logged; raise
query_failed(d, exc) ==
    IF ~d.in_transaction /\ ~d.autocommit
    THEN {<<[d EXCEPT !.pending = 0], exc>>, <<d, exc>>}
    ELSE {<<d, exc>>}

\* execute_non_query(): cursor, execute, the implicit commit outside a
\* transaction when autocommit is off
execute_outcomes(d) ==
    IF ~ensure_connected(d) THEN {<<d, "RuntimeError">>}
    ELSE LET run == IF d.autocommit THEN [d EXCEPT !.committed = @ + 1]
                    ELSE [d EXCEPT !.pending = @ + 1]
         IN  {<<d, "cursor">>}
             \cup query_failed(d, "execute")
             \cup (IF ~d.in_transaction /\ ~d.autocommit
                   THEN {<<[run EXCEPT !.committed = @ + run.pending, !.pending = 0], "ok">>}
                        \cup query_failed(run, "commit")
                   ELSE {<<run, "ok">>})

\* fetch_all() / fetch_one(): cursor, execute, fetch
fetch_outcomes(d) ==
    IF ~ensure_connected(d) THEN {<<d, "RuntimeError">>}
    ELSE {<<d, "ok">>, <<d, "cursor">>, <<d, "execute">>}

\* the call op ended with outcome o
called(op, o) == db' = [o[1] EXCEPT !.last = [op |-> op, exc |-> o[2], inner |-> None]]

\* the transaction() block ended its step with exc, after a call with outcome o
block_called(op, o, tx, exc) ==
    db' = [o[1] EXCEPT !.tx = tx, !.last = [op |-> op, exc |-> exc, inner |-> o[2]]]

client_connect ==
    /\ \E o \in connect_outcomes(db) : called("connect", o)
    /\ UNCHANGED <<pipeVars, tr, dl>>

client_close ==
    /\ \E o \in close_outcomes(db) : called("close", o)
    /\ UNCHANGED <<pipeVars, tr, dl>>

begin_transaction ==
    /\ \E o \in begin_outcomes(db) : called("begin_transaction", o)
    /\ UNCHANGED <<pipeVars, tr, dl>>

commit ==
    /\ \E o \in commit_outcomes(db) : called("commit", o)
    /\ UNCHANGED <<pipeVars, tr, dl>>

rollback ==
    /\ \E o \in rollback_outcomes(db) : called("rollback", o)
    /\ UNCHANGED <<pipeVars, tr, dl>>

execute_non_query ==
    /\ db.pending + db.committed < MaxWrites
    /\ \E o \in execute_outcomes(db) : called("execute_non_query", o)
    /\ UNCHANGED <<pipeVars, tr, dl>>

fetch_all ==
    /\ \E o \in fetch_outcomes(db) : called("fetch_all", o)
    /\ UNCHANGED <<pipeVars, tr, dl>>

\* async with client.transaction(): await self.begin_transaction(), before
\* the try; the body runs when it returned
transaction_enter ==
    /\ db.tx = "none"
    /\ \E o \in begin_outcomes(db) :
          block_called("transaction_enter", o,
                       IF o[2] = "ok" THEN "body" ELSE "none", o[2])
    /\ UNCHANGED <<pipeVars, tr, dl>>

\* else: await self.commit(): the body finished without exception
transaction_commit ==
    /\ db.tx = "body"
    /\ \E o \in commit_outcomes(db) :
          block_called("transaction_commit", o, "none", o[2])
    /\ UNCHANGED <<pipeVars, tr, dl>>

\* the failure of the rollback leaves the block in place of the body's exception
transaction_rollback_unguarded ==
    /\ db.tx = "body"
    /\ \E o \in rollback_outcomes(db) :
          block_called("transaction_rollback", o, "none",
                       IF o[2] = "ok" THEN "body" ELSE o[2])
    /\ UNCHANGED <<pipeVars, tr, dl>>

\* except Exception: try: await self.rollback() except Exception: log; raise:
\* the body raised
transaction_rollback ==
    /\ db.tx = "body"
    /\ \E o \in rollback_outcomes(db) :
          block_called("transaction_rollback", o, "none", "body")
    /\ UNCHANGED <<pipeVars, tr, dl>>

NextClient ==
    \/ client_connect
    \/ client_close
    \/ begin_transaction
    \/ commit
    \/ rollback
    \/ execute_non_query
    \/ fetch_all
    \/ transaction_enter
    \/ transaction_commit
    \/ transaction_rollback

SpecClient == InitClient /\ [][NextClient]_vars

\* ======================================================================
\* Properties
\* ======================================================================
Ceil(n, w) == (n + w - 1) \div w

\* the row of stage etapa of the session of item j
RowOf(j, etapa) ==
    rows[j][CHOOSE d \in DOMAIN rows[j] : rows[j][d].etapa = etapa]

HasRow(j, etapa) == \E d \in DOMAIN rows[j] : rows[j][d].etapa = etapa

\* a run of the stage runner for item j has just ended
StageEnded(j) == task[j].last.exit \in {"returned", "raised"}

\* the ended run of the stage runner saw no failure of the database
NoStorageFailure(j) == task[j].ret.error # "db" /\ HasRow(j, task[j].last.etapa)

HasFailed(j) == \E d \in DOMAIN rows[j] : rows[j][d].estado = ErrorEstado

Ended(j) == task[j].pc \in {"returned", "raised"}

\* the fixed order of the stages for the requested outputs
StageSeq(tipos) ==
    <<EtapaVideo, EtapaAudio, EtapaTranscripcion, EtapaResumen>>
    \o (IF TipoPDF \in tipos THEN <<EtapaPDF>> ELSE <<>>)
    \o (IF TipoPodcast \in tipos THEN <<EtapaGuion, EtapaAudioPodcast>> ELSE <<>>)

\* the n-th call (n = 1, 2, ...) of a unit of work that fails k times and
\* then succeeds raises if and only if n <= k
unit_raises(k, n) == n <= k

\* the calls made by the ended run are those of a unit of work that fails k
\* times and then succeeds
FailsThenSucceeds(j, k) ==
    /\ task[j].last.calls # <<>>
    /\ \A n \in DOMAIN task[j].last.calls :
           (task[j].last.calls[n] = "raised") <=> unit_raises(k, n)

\* C1: a stage run whose unit of work fails k < max_attempts times and then
\* succeeds ends with the row of the stage Completed, its error count k, and
\* the runner returning the result of the unit.
C1_RetriedStageCompletes ==
    \A j \in Items : \A k \in 0..(MaxAttempts - 1) :
        (StageEnded(j) /\ FailsThenSucceeds(j, k) /\ NoStorageFailure(j))
        => /\ task[j].last.exit = "returned"
           /\ RowOf(j, task[j].last.etapa).estado = Completado
           /\ RowOf(j, task[j].last.etapa).errores = k

\* C2: a stage run whose unit of work fails on each of max_attempts attempts
\* ends with the row of the stage Failed, its error count max_attempts, and
\* the exception raised to the orchestrator.
C2_ExhaustedStageFails ==
    \A j \in Items :
        (StageEnded(j) /\ FailsThenSucceeds(j, MaxAttempts) /\ NoStorageFailure(j))
        => /\ task[j].last.exit = "raised"
           /\ RowOf(j, task[j].last.etapa).estado = ErrorEstado
           /\ RowOf(j, task[j].last.etapa).errores = MaxAttempts

\* C3: a row is never removed, a row in progress stays in progress or becomes
\* Completed or Failed, and a Completed or Failed row is never written again
\* (estado, resultado and errores keep their values).
C3_TerminalRowsFrozen ==
    [][\A j \in Items : \A d \in DOMAIN rows[j] :
          /\ d \in DOMAIN rows'[j]
          /\ rows[j][d].estado \in Terminal => rows'[j][d] = rows[j][d]]_vars

\* a Completed row followed, in the same session, by a row that failed
C3_Witness ==
    \E j \in Items :
        /\ Len(rows[j]) >= 2
        /\ rows[j][1].estado = Completado
        /\ rows[j][2].estado = ErrorEstado
        /\ Ended(j)

\* C4: at the repository, an update of a row that is Completed or Failed
\* leaves estado, resultado and errores of the row as they were.
C4_RecorderKeepsTerminalRows ==
    [][\A d \in DOMAIN rows[1] :
          rows[1][d].estado \in Terminal
          => d \in DOMAIN rows'[1] /\ rows'[1][d] = rows[1][d]]_vars

\* C5: once a row of a session is Failed it is the last row of the session,
\* all rows before it are Completed, the workflow of the session has ended
\* raising (the item answers with status error), and from then on no row is
\* added to the session and no unit of work is called for it.
C5_FailedStopsPipeline ==
    /\ [](\A j \in Items : HasFailed(j) =>
            /\ rows[j][Len(rows[j])].estado = ErrorEstado
            /\ \A d \in 1..(Len(rows[j]) - 1) : rows[j][d].estado = Completado
            /\ task[j].pc \in {"close", "returned", "raised"}
            /\ task[j].pc # "raised" => task[j].ret.status = "error")
    /\ [][\A j \in Items : HasFailed(j) =>
            /\ Len(rows'[j]) = Len(rows[j])
            /\ invoked'[j] = invoked[j]]_vars

\* the transcription failed: three rows, Completed, Completed, Failed, the
\* summary was never started and the item answered with an error
C5_Witness ==
    \E j \in Items :
        /\ Len(rows[j]) = 3
        /\ rows[j][1].estado = Completado
        /\ rows[j][2].estado = Completado
        /\ rows[j][3].etapa = EtapaTranscripcion
        /\ rows[j][3].estado = ErrorEstado
        /\ invoked[j] = <<EtapaVideo, EtapaAudio, EtapaTranscripcion>>
        /\ task[j].pc = "returned"
        /\ task[j].ret.status = "error"

\* C6: the rows of a session are, in insertion order, the first stages of the
\* fixed order Download, ExtractAudio, Transcribe, Summarize, PDF if requested,
\* PodcastScript and PodcastAudio if requested; every row but the last is
\* Completed (so at most one row is in progress and PodcastAudio starts after
\* PodcastScript is Completed); the units of work were called in that order,
\* each after the row of its stage was created.
C6_StagesInFixedOrder ==
    \A j \in Items :
        LET seq == StageSeq(requests_data[j].TipoResumenGrabacionOnline)
        IN  /\ Len(rows[j]) <= Len(seq)
            /\ \A d \in DOMAIN rows[j] : rows[j][d].etapa = seq[d]
            /\ \A d \in 1..(Len(rows[j]) - 1) : rows[j][d].estado = Completado
            /\ Cardinality({d \in DOMAIN rows[j] : rows[j][d].estado = EnProceso}) <= 1
            /\ Len(invoked[j]) <= Len(rows[j])
            /\ \A d \in DOMAIN invoked[j] : invoked[j][d] = seq[d]
            /\ task[j].pc = "work" =>
                   /\ Len(invoked[j]) = Len(rows[j]) - 1
                   /\ rows[j][Len(rows[j])].estado = EnProceso

\* all seven stages ran and are Completed
C6_Witness ==
    \E j \in Items :
        /\ Len(rows[j]) = 7
        /\ \A d \in DOMAIN rows[j] : rows[j][d].estado = Completado
        /\ rows[j][6].etapa = EtapaGuion
        /\ rows[j][7].etapa = EtapaAudioPodcast
        /\ invoked[j] = StageSeq({TipoPDF, TipoPodcast})

BatchEnded == bpc \in {"returned", "raised"}

\* C7: process_batch_list runs ceil(N/W) waves, wave w being the w-th
\* consecutive slice of W items (the last may be shorter), and an item of a
\* wave has not started while an item of an earlier wave has not ended.
C7_WavesOfConsecutiveSlices ==
    /\ BatchEnded => Len(launched) = Ceil(N, batch_size)
    /\ \A w \in DOMAIN launched :
          /\ Len(launched[w]) = Min(batch_size, N - (w - 1) * batch_size)
          /\ \A k \in DOMAIN launched[w] : launched[w][k] = (w - 1) * batch_size + k
    /\ \A j1, j2 \in Items :
          (Ceil(j1, batch_size) < Ceil(j2, batch_size) /\ task[j2].pc # "idle")
          => Ended(j1)

\* C8: the failure of an item keeps no other item from running: whenever
\* process_batch_list is over, the coroutine of every item of every wave has
\* been started.
C8_FailureStopsNoOtherItem ==
    BatchEnded => \A j \in Items : task[j].pc # "idle"

\* C9: process_batch_list never raises, and the report it returns has an
\* entry with status error for every item whose processing failed.
C9_BatchNeverRaises ==
    /\ bpc # "raised"
    /\ bpc = "returned" =>
          \A j \in Items :
              (task[j].pc = "raised" \/ task[j].ret.status = "error")
              => /\ j \in DOMAIN report.results
                 /\ report.results[j].status = "error"

\* C10: the report returned for N items has total_processed = N and N
\* results, results[j] being the dict returned for item j; success counts the
\* entries with status success and success + failed = N.
C10_ReportAggregates ==
    bpc = "returned" =>
        /\ report.total_processed = N
        /\ Len(report.results) = N
        /\ \A j \in Items : /\ report.results[j] = task[j].ret
                            /\ report.results[j].input_id = j
        /\ report.success =
              Cardinality({j \in Items : report.results[j].status = "success"})
        /\ report.failed =
              Cardinality({j \in Items : report.results[j].status = "error"})
        /\ report.success + report.failed = N

\* a report of three items in waves of two, with a success and an error in
\* the first wave
C10_Witness ==
    /\ bpc = "returned"
    /\ N = 3
    /\ batch_size = 2
    /\ report.results[1].status = "error"
    /\ report.results[2].status = "success"
    /\ report.success + report.failed = 3

\* the workflow of item j is over (it returned its report or raised) and the
\* client of the item is not closed yet
WorkflowOver(j) == task[j].pc = "close" /\ task[j].cleanup # None

\* C11: a session has a PDF row only if type 1 was requested and PodcastScript
\* or PodcastAudio rows only if type 3 was requested; a run that returned its
\* report has exactly 4 + [PDF requested] + 2 * [podcast requested] rows, all
\* of them Completed.
C11_OptionalRowsOnlyIfRequested ==
    \A j \in Items :
        LET tipos == requests_data[j].TipoResumenGrabacionOnline
        IN  /\ HasRow(j, EtapaPDF) => TipoPDF \in tipos
            /\ (HasRow(j, EtapaGuion) \/ HasRow(j, EtapaAudioPodcast))
                   => TipoPodcast \in tipos
            /\ task[j].ret.status = "success" =>
                   /\ Len(rows[j]) = 4 + (IF TipoPDF \in tipos THEN 1 ELSE 0)
                                       + (IF TipoPodcast \in tipos THEN 2 ELSE 0)
                   /\ \A d \in DOMAIN rows[j] : rows[j][d].estado = Completado

\* no output requested: the report has no URL and the session exactly the four
\* rows of download, audio, transcription and summary
C11_Witness ==
    \E j \in Items :
        /\ requests_data[j].TipoResumenGrabacionOnline = {}
        /\ task[j].ret.status = "success"
        /\ task[j].ret.details.pdf_url = None
        /\ task[j].ret.details.podcast_url = None
        /\ Len(rows[j]) = 4
        /\ rows[j][4].etapa = EtapaResumen

\* C12: when PDF and podcast are both requested and the PDF stage has Failed,
\* the workflow does not end without a PodcastScript row in the session.
C12_PodcastAttemptedAfterPdfFailure ==
    \A j \in Items :
        (/\ {TipoPDF, TipoPodcast} \subseteq requests_data[j].TipoResumenGrabacionOnline
         /\ HasRow(j, EtapaPDF)
         /\ RowOf(j, EtapaPDF).estado = ErrorEstado
         /\ WorkflowOver(j))
        => HasRow(j, EtapaGuion)

\* the download stage of item j is Completed
DownloadCompleted(j) ==
    HasRow(j, EtapaVideo) /\ RowOf(j, EtapaVideo).estado = Completado

\* C13 as stated: when the download stage completed, the video file does not
\* exist once the workflow is over, and a failed removal leaves the outcome
\* of the run as it was.
C13_VideoGoneAfterWorkflow ==
    \A j \in Items :
        (WorkflowOver(j) /\ DownloadCompleted(j))
        => /\ ~disk[j]
           /\ task[j].ret.error # "os"

\* C13 (amended): when the download stage completed, the workflow tried to
\* remove the video file before it ended, and the file exists afterwards only
\* if the removal failed; a failed removal leaves the outcome of the run as it
\* was: the report is returned if the last stage returned, and else the item
\* answers with the exception of the stage.
C13_VideoGoneUnlessRemovalFails ==
    \A j \in Items :
        (WorkflowOver(j) /\ DownloadCompleted(j))
        => /\ task[j].cleanup \in {"removed", "failed"}
           /\ disk[j] <=> task[j].cleanup = "failed"
           /\ task[j].ret.status = "success" <=> task[j].last.exit = "returned"
           /\ task[j].ret.status = "error" <=> task[j].last.exit = "raised"
           /\ task[j].ret.error \in {None, "unit", "db"}

\* the removal failed after a run that returned its report, and after a run
\* whose audio extraction raised
C13_Witness ==
    \E j \in Items :
        /\ WorkflowOver(j) /\ DownloadCompleted(j)
        /\ task[j].cleanup = "failed"
        /\ disk[j]
        /\ \/ task[j].ret.status = "success"
           \/ task[j].ret.error = "unit" /\ task[j].last.etapa = EtapaAudio

\* the calls of the unit of work made by the current or last run of the runner
Calls(j) == task[j].last.calls

\* the failed attempts of the run after which attempts remained
FailedWithAttemptsLeft(j) ==
    {n \in DOMAIN Calls(j) : Calls(j)[n] = "raised" /\ n < MaxAttempts}

\* C14: a stage run that has ended created exactly one row of its stage and
\* called the unit of work at least once and at most max_attempts times; it
\* called the unit again after an attempt if and only if that attempt failed
\* and fewer than max_attempts attempts had been made.
C14_AttemptsBounded ==
    \A j \in Items :
        (StageEnded(j) /\ NoStorageFailure(j))
        => /\ Cardinality({d \in DOMAIN rows[j] :
                              rows[j][d].etapa = task[j].last.etapa}) = 1
           /\ Len(Calls(j)) \in 1..MaxAttempts
           /\ \A n \in DOMAIN Calls(j) :
                  (n + 1 \in DOMAIN Calls(j))
                  <=> (Calls(j)[n] = "raised" /\ n < MaxAttempts)

\* C15: a stage run that has ended waited n seconds after each failed attempt
\* n that left attempts, 1 + 2 + ... in all, and nothing else: no wait before
\* the first attempt and none after the last.
C15_LinearBackoff ==
    \A j \in Items :
        (StageEnded(j) /\ NoStorageFailure(j))
        => LET f == Cardinality(FailedWithAttemptsLeft(j))
           IN  task[j].last.waited = (f * (f + 1)) \div 2

\* C16: the error count of a row never decreases, changes only while the row
\* is in progress, and so keeps the value of the terminal write for ever.
C16_ErrorCountMonotone ==
    [][\A j \in Items : \A d \in DOMAIN rows[j] :
          /\ d \in DOMAIN rows'[j]
          /\ rows'[j][d].errores >= rows[j][d].errores
          /\ rows'[j][d].errores # rows[j][d].errores
                 => rows[j][d].estado = EnProceso]_vars

\* the error count of the summary row went from 0 to 1 with the write of
\* Failed, the counts of the rows before it are still 0
C16_Witness ==
    \E j \in Items :
        /\ Len(rows[j]) = 4
        /\ rows[j][4].estado = ErrorEstado
        /\ rows[j][4].errores = 1
        /\ \A d \in 1..3 : rows[j][d].errores = 0

\* C17: after a failed attempt that left attempts, the handler of the runner
\* leaves the row in progress with the number of failed attempts as its
\* error count.
C17_ProgressPersisted ==
    \A j \in Items :
        (/\ StageEnded(j) /\ NoStorageFailure(j)
         /\ Calls(j) # <<>>
         /\ Len(Calls(j)) \in FailedWithAttemptsLeft(j))
        => /\ RowOf(j, task[j].last.etapa).estado = EnProceso
           /\ RowOf(j, task[j].last.etapa).errores = Len(Calls(j))

\* C18: a row is created in progress with error count 0 for the stage of the
\* runner; a stage run that ended without a row of its stage raised the
\* failure of the storage, its unit of work was never called, the workflow is
\* over with an error, and from then on the session gets no row and no unit
\* of work is called for it; a run that returned its report skipped no stage.
C18_BeginFailurePropagates ==
    /\ [][\A j \in Items :
            /\ Len(rows'[j]) > Len(rows[j]) =>
                   /\ Len(rows'[j]) = Len(rows[j]) + 1
                   /\ rows'[j][Len(rows'[j])].etapa = task[j].stage_id
                   /\ rows'[j][Len(rows'[j])].estado = EnProceso
                   /\ rows'[j][Len(rows'[j])].errores = 0
            /\ (StageEnded(j) /\ ~HasRow(j, task[j].last.etapa)) =>
                   /\ rows'[j] = rows[j]
                   /\ invoked'[j] = invoked[j]]_vars
    /\ [](\A j \in Items :
            /\ (StageEnded(j) /\ ~HasRow(j, task[j].last.etapa)) =>
                   /\ task[j].last.exit = "raised"
                   /\ Calls(j) = <<>>
                   /\ task[j].last.etapa \notin SeqToSet(invoked[j])
                   /\ WorkflowOver(j)
                   /\ task[j].ret.status = "error"
                   /\ task[j].ret.error = "db"
            /\ \A d \in DOMAIN invoked[j] : HasRow(j, invoked[j][d])
            /\ task[j].ret.status = "success" =>
                   \A s \in SeqToSet(StageSeq(requests_data[j].TipoResumenGrabacionOnline)) :
                       HasRow(j, s))

\* the row of the audio extraction could not be created: the session has the
\* row of the download only, the extraction was never called
C18_Witness ==
    \E j \in Items :
        /\ task[j].last.etapa = EtapaAudio
        /\ task[j].last.exit = "raised"
        /\ ~HasRow(j, EtapaAudio)
        /\ Len(rows[j]) = 1
        /\ invoked[j] = <<EtapaVideo>>
        /\ task[j].ret.error = "db"

UnitFailedTerminally(j) ==
    /\ StageEnded(j)
    /\ task[j].last.exit = "raised"
    /\ Calls(j) # <<>>
    /\ Calls(j)[Len(Calls(j))] = "raised"

RowTerminal(j, d) == d \in DOMAIN rows[j] /\ rows[j][d].estado \in Terminal

InFlight(j) == task[j].pc \notin {"idle", "returned", "raised"}

\* C22: at every moment at most batch_size pipeline runs are in flight.
C22_InFlightAtMostWave ==
    Cardinality({j \in Items : InFlight(j)}) <= batch_size

\* three items in waves of two: the two runs of the first wave are both at
\* their unit of work and the third item has not started
C22_Witness ==
    /\ N = 3
    /\ batch_size = 2
    /\ task[1].pc = "work"
    /\ task[2].pc = "work"
    /\ task[3].pc = "idle"

\* the positions of a coroutine between __aenter__ and __aexit__
InsideAsyncWith == {"create_sesion", "begin", "mark", "work", "complete",
                    "except", "close"}

\* C23: no two items hold the same client object; the connection of an item
\* is open as long as the item is inside its async with; and the connection
\* of a client changes only in a step of the one item that holds the client,
\* when that item opens or closes it.
C23_OwnConnection ==
    /\ [](\A j1, j2 \in Items :
            (j1 # j2 /\ task[j1].client # 0 /\ task[j2].client # 0)
            => task[j1].client # task[j2].client)
    /\ [](\A j \in Items :
            task[j].pc \in InsideAsyncWith => conn[task[j].client] = "open")
    /\ [][\A c \in DOMAIN conn :
            conn'[c] # conn[c]
            => \E j \in Items :
                  /\ task[j].client = c
                  /\ task[j].pc \in {"connect", "close"}
                  /\ task'[j].pc # task[j].pc
                  /\ \A k \in Items \ {j} : task'[k] = task[k]]_vars

\* item 1 has closed its connection while item 2 of the same wave is still
\* at its unit of work on its own open connection
C23_Witness ==
    /\ N >= 2
    /\ batch_size = 2
    /\ task[1].pc = "returned"
    /\ conn[task[1].client] = "closed"
    /\ task[2].pc = "work"
    /\ conn[task[2].client] = "open"

\* C24: the sessions of two items differ, and the rows of a session change
\* only in a step of the stage runner of the item that owns the session:
\* that step appends one row, or rewrites the row whose id the runner holds,
\* and leaves the rows of every other session as they are.
C24_RowsWrittenByOwner ==
    /\ [](\A j1, j2 \in Items :
            (j1 # j2 /\ task[j1].sesion_id # 0) => task[j1].sesion_id # task[j2].sesion_id)
    /\ [][\A s \in Items :
            rows'[s] # rows[s]
            => /\ task[s].sesion_id = s
               /\ task[s].pc \in {"begin", "mark", "complete", "except"}
               /\ task'[s] # task[s]
               /\ \A s2 \in Items \ {s} : rows'[s2] = rows[s2] /\ task'[s2] = task[s2]
               /\ \/ /\ task[s].pc = "begin"
                     /\ Len(rows'[s]) = Len(rows[s]) + 1
                     /\ \A d \in DOMAIN rows[s] : rows'[s][d] = rows[s][d]
                  \/ /\ task[s].pc # "begin"
                     /\ Len(rows'[s]) = Len(rows[s])
                     /\ \A d \in DOMAIN rows[s] \ {task[s].detalle_id} :
                            rows'[s][d] = rows[s][d]]_vars

\* the runs of a wave have both written rows of their own sessions: item 1
\* is at its second stage while item 2 has its first row Failed
C24_Witness ==
    /\ N >= 2
    /\ batch_size = 2
    /\ Len(rows[1]) = 2
    /\ rows[1][1].estado = Completado
    /\ task[1].pc = "work"
    /\ Len(rows[2]) = 1
    /\ rows[2][1].estado = ErrorEstado

\* C25: the report of a run that succeeded holds the id of the session, the
\* status success, the path of the video, a preview of the transcript, a
\* preview of the summary, a pdf_url if and only if the PDF stage ran and a
\* podcast_url if and only if the podcast stages ran.
C25_ReportHasEveryReference ==
    \A j \in Items :
        task[j].ret.status = "success"
        => LET r == task[j].ret.details
           IN  /\ r.sesion_id = task[j].ret.sesion_id
               /\ r.sesion_id \in sesiones
               /\ r.status = "success"
               /\ r.video_path # None
               /\ r.transcript_preview # None
               /\ r.summary_preview # None
               /\ r.pdf_url # None <=> HasRow(j, EtapaPDF)
               /\ r.podcast_url # None <=> HasRow(j, EtapaAudioPodcast)

\* C26: in the report of a batch, the entry of an item has status success
\* if and only if the workflow of the item returned its report, which the
\* entry then carries, and status error with the message of the exception
\* otherwise; and it holds the id of the session of the item whenever a
\* session was created for the item.
C26_EntryStatusAndSession ==
    bpc = "returned" =>
        \A j \in Items :
            LET e == report.results[j]
            IN  /\ e.status \in {"success", "error"}
                /\ e.status = "success" <=> e.details.status = "success"
                /\ e.status = "success" <=> e.details # NoDetails
                /\ e.status = "error" <=> e.error # None
                /\ j \in sesiones => e.sesion_id = j

\* C27: the stages of the rows of a session, in insertion order, are the
\* first stages of the fixed sequence for the requested outputs; no stage has
\* two rows; every row but the last is Completed.
C27_RowsPrefixNoRerun ==
    \A j \in Items :
        LET seq == StageSeq(requests_data[j].TipoResumenGrabacionOnline)
            n == Len(rows[j])
        IN  /\ n <= Len(seq)
            /\ [d \in 1..n |-> rows[j][d].etapa] = SubSeq(seq, 1, n)
            /\ \A d1, d2 \in 1..n : d1 # d2 => rows[j][d1].etapa # rows[j][d2].etapa
            /\ \A d \in 1..(n - 1) : rows[j][d].estado = Completado

\* only the podcast was requested: after the summary comes the script, whose
\* row is in progress while the four rows before it are Completed
C27_Witness ==
    \E j \in Items :
        /\ requests_data[j].TipoResumenGrabacionOnline = {TipoPodcast}
        /\ Len(rows[j]) = 5
        /\ rows[j][5].etapa = EtapaGuion
        /\ rows[j][5].estado = EnProceso
        /\ rows[j][4].estado = Completado

\* C28: the row of a stage is Failed only if the unit of work of the stage
\* raised; a stage whose unit of work returned is not Failed and its runner
\* returns the result.
C28_FailedOnlyIfUnitRaised ==
    \A j \in Items :
        (StageEnded(j) /\ HasRow(j, task[j].last.etapa))
        => /\ RowOf(j, task[j].last.etapa).estado = ErrorEstado
                  => Calls(j) # <<>> /\ Calls(j)[Len(Calls(j))] = "raised"
           /\ (Calls(j) # <<>> /\ Calls(j)[Len(Calls(j))] = "returned")
                  => task[j].last.exit = "returned"

\* the clients that hold an open connection
OpenClients == {c \in DOMAIN conn : conn[c] = "open"}

\* C29: the connection of an item whose processing has ended is not open,
\* whether the item returned a success, returned an error or raised; at most
\* batch_size connections are open, and none is when process_batch_list has
\* returned.
C29_ConnectionsClosed ==
    /\ \A j \in Items :
          Ended(j) => /\ task[j].client \in DOMAIN conn
                      /\ conn[task[j].client] # "open"
    /\ Cardinality(OpenClients) <= batch_size
    /\ bpc = "returned" => OpenClients = {}

\* a batch of two items has returned: the client of the item that failed and
\* the client of the item that succeeded are both closed
C29_Witness ==
    /\ bpc = "returned"
    /\ N = 2
    /\ task[1].ret.status = "error"
    /\ task[2].ret.status = "success"
    /\ conn = <<"closed", "closed">>

\* C30: the session of an item exists before the item has a row or a unit
\* of work called; an item whose connection was opened and that ended
\* without a session has no row, had no unit of work called, and returned an
\* entry with status error, which the report of the batch holds.
C30_SessionBeforeStages ==
    \A j \in Items :
        /\ (rows[j] # <<>> \/ invoked[j] # <<>>) => j \in sesiones
        /\ task[j].sesion_id # 0 => task[j].sesion_id \in sesiones
        /\ (Ended(j) /\ conn[task[j].client] = "closed" /\ j \notin sesiones)
               => /\ rows[j] = <<>>
                  /\ invoked[j] = <<>>
                  /\ task[j].pc = "returned"
                  /\ task[j].ret.status = "error"
                  /\ bpc = "returned" => report.results[j].status = "error"

\* a transcript the transcription stage has to refuse
ShortTranscript(text) == text = "" \/ Len(text) < MinTranscript

\* C31: when the transcription service handed back an empty transcript or
\* one of fewer than 10 characters, the unit of work of the Transcribe stage
\* raised, the row of the stage is not Completed and the Summarize stage has
\* neither a row nor a call; whenever the Summarize stage has a row, the
\* Transcribe row is Completed with a transcript of 10 characters or more.
C31_ShortTranscriptFailsStage ==
    \A j \in Items :
        /\ (/\ task[j].last.etapa = EtapaTranscripcion
            /\ task[j].last.text # None
            /\ ShortTranscript(task[j].last.text))
               => /\ Calls(j) = <<"raised">>
                  /\ task[j].last.result_data = None
                  /\ RowOf(j, EtapaTranscripcion).estado # Completado
                  /\ ~HasRow(j, EtapaResumen)
                  /\ EtapaResumen \notin SeqToSet(invoked[j])
        /\ (HasRow(j, EtapaResumen) \/ EtapaResumen \in SeqToSet(invoked[j]))
               => /\ RowOf(j, EtapaTranscripcion).estado = Completado
                  /\ ~ShortTranscript(RowOf(j, EtapaTranscripcion).resultado)

\* the service handed back nine characters: the Transcribe row ended in
\* Error, the workflow is over and no later stage was touched
C31_Witness ==
    \E j \in Items :
        /\ task[j].last.etapa = EtapaTranscripcion
        /\ task[j].last.text = "too short"
        /\ task[j].last.exit = "raised"
        /\ WorkflowOver(j)
        /\ RowOf(j, EtapaTranscripcion).estado = ErrorEstado
        /\ RowOf(j, EtapaTranscripcion).resultado = "Error: unit"
        /\ Len(rows[j]) = 3
        /\ invoked[j] = <<EtapaVideo, EtapaAudio, EtapaTranscripcion>>

\* the call has entered the polling loop / has left it / is over
LoopEntered == tr.job # None
LoopLeft == LoopEntered /\ tr.pc \notin {"poll", "sleep"}
CallOver == tr.pc \in {"returned", "raised"}

\* C32 as stated: a call that has left the polling loop last read the
\* status Succeeded or Failed, so a call that is over had Succeeded or
\* Failed reported by the job.
C32_LoopLeftOnlyOnFinalStatus ==
    LoopLeft => /\ tr.status \in {"Succeeded", "Failed"}
                /\ tr.reported \cap {"Succeeded", "Failed"} # {}

\* the loop is left on the first Succeeded or Failed it reads, or by the
\* exception of the poll request, and never otherwise
C32_LoopExits ==
    /\ LoopLeft => \/ tr.status \in {"Succeeded", "Failed"}
                   \/ tr.exc = "poll"
    /\ tr.pc \in {"files", "content", "delete", "returned"}
          => /\ tr.status = "Succeeded"
             /\ tr.job = "Succeeded"
             /\ "Failed" \notin tr.reported
    /\ (LoopLeft /\ tr.status = "Failed") => tr.pc = "raised" /\ tr.exc = "failed"
    /\ tr.final_text # None => "Succeeded" \in tr.reported
    /\ tr.pc = "returned" => tr.final_text \in transcripts
    /\ tr.pc = "sleep" => tr.status \notin {"Succeeded", "Failed"}

\* a poll that read another status is followed by the wait and the wait by
\* the next poll
C32_WaitsAndPollsAgain ==
    /\ (tr.pc = "poll" /\ tr'.pc = "poll") => UNCHANGED <<tr.status, tr.polls>>
    /\ (tr.pc = "poll" /\ tr'.status \notin {"Succeeded", "Failed"}
        /\ tr'.exc = None /\ tr'.polls # tr.polls) => tr'.pc = "sleep"
    /\ tr.pc = "sleep" => tr'.pc \in {"sleep", "poll"}
    /\ (tr.pc = "sleep" /\ tr'.pc = "poll")
          => tr'.slept = Min(tr.slept + PollSeconds, MaxPolls * PollSeconds)

\* C32 (amended): the polling loop is left only when the status read is
\* Succeeded (the text is then fetched) or Failed (the call then raises), or
\* when the poll request itself raises; any other status is followed by the
\* wait and the next poll; once the job is Succeeded or Failed the call
\* comes to an end, and only a job that reported Succeeded yields a text.
C32_PollsToCompletion ==
    /\ []C32_LoopExits
    /\ [][C32_WaitsAndPollsAgain]_vars
    /\ ((LoopEntered /\ tr.job \in {"Succeeded", "Failed"}) ~> CallOver)

\* the call waited through NotStarted and Running and returned the text of
\* the job that then reported Succeeded
C32_Witness ==
    /\ tr.pc = "returned"
    /\ tr.reported = {"NotStarted", "Running", "Succeeded"}
    /\ tr.polls = MaxPolls
    /\ tr.slept >= 2 * PollSeconds
    /\ tr.final_text = "a full transcript"

\* C33: when the download has failed after the destination file was opened
\* for writing, the destination file does not exist.
C33_NoPartialFileAfterFailure ==
    (dl.pc = "raised" /\ dl.opened) => ~FileExists(dl)

\* the step is a call of op (every call leaves its name in last)
Step(op) == db'.last.op = op

\* what a call may change of the client and its connection
Core(d) == <<d.conn, d.in_transaction, d.autocommit, d.autocommit_default,
             d.pending, d.committed, d.tx>>

\* entry of the block: begin_transaction, and the body only if it returned
C34_Enter ==
    Step("transaction_enter")
    => /\ db.tx = "none"
       /\ db'.last.exc = db'.last.inner
       /\ IF db'.last.exc = "ok"
          THEN /\ db.conn = "open" /\ ~db.in_transaction
               /\ db'.tx = "body" /\ db'.in_transaction /\ ~db'.autocommit
               /\ db'.committed = db.committed
          ELSE Core(db') = Core(db)

\* the body finished: commit, whose exception is the one of the block
C34_BodyReturned ==
    Step("transaction_commit")
    => /\ db.tx = "body" /\ db'.tx = "none"
       /\ db'.last.exc = db'.last.inner
       /\ (db'.last.exc = "ok" /\ db.in_transaction)
             => /\ db'.committed = db.committed + db.pending
                /\ db'.pending = 0
                /\ ~db'.in_transaction
       /\ db'.last.exc \notin {"ok", "setter"} => db'.committed = db.committed

\* the body raised: rollback, nothing committed, the body's exception raised
C34_BodyRaised ==
    Step("transaction_rollback")
    => /\ db.tx = "body" /\ db'.tx = "none"
       /\ db'.last.exc = "body"
       /\ db'.last.inner \in {"ok", "rollback", "setter", "RuntimeError"}
       /\ db'.committed = db.committed
       /\ (db'.last.inner = "ok" /\ db.in_transaction)
             => db'.pending = 0 /\ ~db'.in_transaction
       /\ db'.last.inner \in {"rollback", "RuntimeError"} => db'.pending = db.pending

\* C34: transaction() begins a transaction on entry and runs the body only
\* then; when the body finishes it commits; when the body raises it rolls
\* back, commits nothing and raises the body's exception, also when the
\* rollback failed.
C34_TransactionBlock == [][C34_Enter /\ C34_BodyReturned /\ C34_BodyRaised]_vars

\* the body wrote a statement and raised, the rollback failed: the block
\* raised the body's exception and nothing is committed
C34_Witness ==
    /\ db.last.op = "transaction_rollback"
    /\ db.last.exc = "body"
    /\ db.last.inner = "rollback"
    /\ db.pending = 1
    /\ db.committed = 0
    /\ db.conn = "open"

\* C35: a client in a transaction has an open connection with autocommit
\* off; after commit or rollback returned or raised the client is not in a
\* transaction and the autocommit of its connection is the configured
\* default; after close returned or raised the client has no connection and
\* is not in a transaction.
C35_TransactionState ==
    /\ db.in_transaction => db.conn = "open" /\ ~db.autocommit
    /\ db.last.op \in {"commit", "rollback"}
          => /\ ~db.in_transaction
             /\ db.conn = "open" => db.autocommit = db.autocommit_default
    /\ db.last.op = "close" => db.conn = "none" /\ ~db.in_transaction

\* the calls the client refuses or ignores leave the client as it was
C36_Begin ==
    (Step("begin_transaction") /\ db.conn = "open" /\ db.in_transaction)
    => /\ db'.last.exc = "RuntimeError"
       /\ Core(db') = Core(db)
       /\ db'.in_transaction

C36_CommitRollback ==
    (/\ Step("commit") \/ Step("rollback")
     /\ db.conn = "open" /\ ~db.in_transaction)
    => db'.last.exc = "ok" /\ Core(db') = Core(db)

C36_NotConnected ==
    (/\ \/ Step("fetch_all") \/ Step("execute_non_query")
        \/ Step("begin_transaction") \/ Step("commit") \/ Step("rollback")
        \/ Step("transaction_enter")
     /\ db.conn = "none")
    => db'.last.exc = "RuntimeError" /\ Core(db') = Core(db)

C36_ConnectClose ==
    /\ (Step("connect") /\ db.conn = "open")
          => db'.last.exc = "ok" /\ Core(db') = Core(db)
    /\ (Step("close") /\ db.conn = "none")
          => db'.last.exc = "ok" /\ Core(db') = Core(db)

\* C36: begin_transaction during a transaction raises and the transaction
\* stays; commit and rollback outside a transaction return and change
\* nothing; a query or a transaction call on a client without connection
\* raises and changes nothing; connect on a connected client and close on a
\* closed one return and change nothing.
C36_OutOfProtocolCalls ==
    [][C36_Begin /\ C36_CommitRollback /\ C36_NotConnected /\ C36_ConnectClose]_vars

\* a second begin_transaction was refused inside a transaction that holds a
\* pending statement
C36_Witness ==
    /\ db.last.op = "begin_transaction"
    /\ db.last.exc = "RuntimeError"
    /\ db.conn = "open"
    /\ db.in_transaction
    /\ db.pending = 1
====
